---- MODULE Spec2Model ----
(***************************************************************************)
(* The JSONL log store of src/lib/storage/receipts-logger.ts               *)
(* (ReceiptsLogger: logReceipt, logError, readReceipts, getRecentReceipts, *)
(* readErrors) and the worker-thread / batch-size arithmetic of            *)
(* calculateRecommendations in the same file.                              *)
(*                                                                         *)
(* A file is a sequence of one-character strings.  A record is the         *)
(* sequence of characters of its string payload; JSON.stringify frames it  *)
(* in braces and escapes line feeds and backslashes, JSON.parse undoes     *)
(* that and rejects everything else except the literal null.               *)
(***************************************************************************)
EXTENDS Integers, Sequences, FiniteSets, TLC

VARIABLES
    file,            \* [path -> content of the file]
    present,         \* [path -> fs.existsSync(path)]
    appended,        \* history: [channel -> records of the log calls that did not fault]
    faults,          \* history: [channel -> number of log calls that hit a write fault]
    op,              \* the last operation called
    count,           \* the count argument of the last getRecentReceipts call
    ret,             \* the sequence the last read operation returned
    diag,            \* the console.error diagnostics of the last operation
    threw,           \* whether the last operation let an exception reach its caller
    ioFault,         \* whether the last operation hit an I/O fault
    pending,         \* [writer -> bytes of its line not yet in the file]
    job,             \* [writer -> the path its pending bytes go to]
    whole,           \* history: [channel -> records whose line went out in one write]
    aligned,         \* history: [channel -> those of whole written at a line boundary]
    specs,           \* the argument of calculateRecommendations
    recommendations  \* what calculateRecommendations returned

vars == <<file, present, appended, faults, op, count, ret, diag, threw, ioFault,
          pending, job, whole, aligned, specs, recommendations>>

writerVars == <<pending, job, whole, aligned>>
recVars == <<specs, recommendations>>

----------------------------------------------------------------------------
(* Bounds *)

MaxCalls == 3        \* log calls in one behaviour
MaxFaults == 1       \* of which faulting
MaxTorn == 2         \* bytes a faulting append may leave behind
MaxCount == 3        \* the count argument of getRecentReceipts
MaxLines == 2        \* lines of a file found on disk
MaxWrites == 3       \* appends of the concurrent writers in one behaviour
MaxCpu == 32         \* os.cpus().length

Channels == {"receipts", "errors"}

\* The two paths the constructor derives under the storage directory.
receiptsFile == "receipts.jsonl"
errorsFileIsReceiptsFile == "receipts.jsonl"
errorsFile == "errors.jsonl"
Files == {receiptsFile, errorsFile}
PathOf(ch) == IF ch = "receipts" THEN receiptsFile ELSE errorsFile
Writers == {"w1", "w2"}

LF == "\n"
BS == "\\"

\* The payloads logged: one plain, one holding a backslash and a line feed.
Records == { <<"a">>, <<BS, LF>> }

Min(a, b) == IF a < b THEN a ELSE b
Max(a, b) == IF a > b THEN a ELSE b

----------------------------------------------------------------------------
(* Strings *)

\* A stringify that writes the characters as they are.
EscapeNothing(s) == s

\* JSON.stringify's escaping of a string's characters.
RECURSIVE Escape(_)
Escape(s) ==
    IF s = <<>> THEN <<>>
    ELSE (CASE Head(s) = LF -> <<BS, "n">>
            [] Head(s) = BS -> <<BS, BS>>
            [] OTHER -> <<Head(s)>>) \o Escape(Tail(s))

\* JSON.stringify(receipt): one line, no raw line feed in it.
Stringify(r) == <<"{">> \o Escape(r) \o <<"}">>

\* The line logReceipt / logError write: JSON.stringify(record) + '\n'.
LineOf(r) == Stringify(r) \o <<LF>>

WhiteSpace == {" ", LF}

\* String.prototype.trim: white space (line terminators included) off both ends.
RECURSIVE TrimStart(_)
TrimStart(s) ==
    IF s # <<>> /\ Head(s) \in WhiteSpace THEN TrimStart(Tail(s)) ELSE s

RECURSIVE TrimEnd(_)
TrimEnd(s) ==
    IF s # <<>> /\ s[Len(s)] \in WhiteSpace
    THEN TrimEnd(SubSeq(s, 1, Len(s) - 1)) ELSE s

Trim(s) == TrimEnd(TrimStart(s))

\* String.prototype.split('\n'): always at least one piece, "" for the empty string.
RECURSIVE SplitFrom(_, _)
SplitFrom(s, cur) ==
    IF s = <<>> THEN <<cur>>
    ELSE IF Head(s) = LF THEN <<cur>> \o SplitFrom(Tail(s), <<>>)
    ELSE SplitFrom(Tail(s), Append(cur, Head(s)))

Split(s) == SplitFrom(s, <<>>)

\* content.trim().split('\n').filter(line => line.length > 0)
NonEmptyLines(content) == SelectSeq(Split(Trim(content)), LAMBDA l : Len(l) > 0)

\* The characters between the braces, unescaped; ok is FALSE on a raw brace,
\* a raw line feed or a backslash that starts no escape.
RECURSIVE Unescape(_)
Unescape(b) ==
    IF b = <<>> THEN [ok |-> TRUE, val |-> <<>>]
    ELSE IF Head(b) = BS
    THEN IF Len(b) >= 2 /\ b[2] \in {"n", BS}
         THEN LET rest == Unescape(SubSeq(b, 3, Len(b)))
              IN  [ok |-> rest.ok,
                   val |-> <<IF b[2] = "n" THEN LF ELSE BS>> \o rest.val]
         ELSE [ok |-> FALSE, val |-> <<>>]
    ELSE IF Head(b) \in {"{", "}", LF}
    THEN [ok |-> FALSE, val |-> <<>>]
    ELSE LET rest == Unescape(Tail(b))
         IN  [ok |-> rest.ok, val |-> <<Head(b)>> \o rest.val]

\* JSON.parse(line): an object, the literal null, or a SyntaxError.  White
\* space around the value is skipped.
JsonParse(line) ==
    LET t == Trim(line)
        body == Unescape(SubSeq(t, 2, Len(t) - 1))
    IN  IF t = <<"n", "u", "l", "l">>
        THEN [kind |-> "null", val |-> <<>>]
        ELSE IF Len(t) >= 2 /\ t[1] = "{" /\ t[Len(t)] = "}" /\ body.ok
        THEN [kind |-> "object", val |-> body.val]
        ELSE [kind |-> "throw", val |-> <<>>]

\* lines.slice(0, n) in place of lines.slice(-n): the head, not the tail.
SliceHead(a, start) == SubSeq(a, 1, Min(0 - start, Len(a)))

\* Array.prototype.slice(start) with one argument.
Slice(a, start) ==
    LET k == IF start < 0 THEN Max(Len(a) + start, 0) ELSE Min(start, Len(a))
    IN  SubSeq(a, k + 1, Len(a))

\* The map without its inner try / catch: a SyntaxError reaches the reader's
\* outer catch, which returns [] after one diagnostic.
ParseLinesNoCatch(lines) ==
    IF \E i \in 1..Len(lines) : JsonParse(lines[i]).kind = "throw"
    THEN [ret |-> <<>>, diag |-> << <<"Failed to read">> >>, threw |-> FALSE]
    ELSE LET parsed == [i \in 1..Len(lines) |-> JsonParse(lines[i])]
             kept == SelectSeq(parsed, LAMBDA p : p.kind = "object")
         IN  [ret |-> [i \in 1..Len(kept) |-> kept[i].val],
              diag |-> <<>>, threw |-> FALSE]

\* lines.map(line => { try JSON.parse(line) catch: console.error(line); null })
\*      .filter(x => x !== null)
ParseLines(lines) ==
    LET parsed == [i \in 1..Len(lines) |-> JsonParse(lines[i])]
        kept == SelectSeq(parsed, LAMBDA p : p.kind = "object")
    IN  [ret |-> [i \in 1..Len(kept) |-> kept[i].val],
         diag |-> SelectSeq(lines, LAMBDA l : JsonParse(l).kind = "throw"),
         threw |-> FALSE]

----------------------------------------------------------------------------
(* File system *)

\* What fs.appendFileSync can do with a line: write all of it, or throw after
\* the open failed (nothing created), or throw after the open succeeded and
\* only the first `written` bytes went out (disk full).
Outcomes(line) ==
    { [fault |-> FALSE, opened |-> TRUE, written |-> Len(line)] }
    \cup { [fault |-> TRUE, opened |-> FALSE, written |-> 0] }
    \cup { [fault |-> TRUE, opened |-> TRUE, written |-> n] :
             n \in 0..Min(MaxTorn, Len(line) - 1) }

\* fs.writeFileSync in place of fs.appendFileSync: the file is replaced.
WriteFileSync(content, exists, line, o) ==
    [content |-> SubSeq(line, 1, o.written), exists |-> exists \/ o.opened]

\* fs.appendFileSync(path, line, 'utf8') under outcome o.
AppendFileSync(content, exists, line, o) ==
    [content |-> content \o SubSeq(line, 1, o.written),
     exists |-> exists \/ o.opened]

----------------------------------------------------------------------------
(* ReceiptsLogger *)

\* The body shared by logReceipt and logError: stringify, append, and on a
\* throw of appendFileSync one console.error and a normal return.
LogLine(ch, path, r, o) ==
    LET w == AppendFileSync(file[path], present[path], LineOf(r), o)
    IN  /\ file' = [file EXCEPT ![path] = w.content]
        /\ present' = [present EXCEPT ![path] = w.exists]
        /\ appended' = [appended EXCEPT ![ch] = IF o.fault THEN @ ELSE Append(@, r)]
        /\ faults' = [faults EXCEPT ![ch] = IF o.fault THEN @ + 1 ELSE @]
        /\ diag' = IF o.fault THEN << <<"Failed to log">> >> ELSE <<>>
        /\ ioFault' = o.fault
        /\ threw' = FALSE
        /\ ret' = <<>>
        /\ count' = 0

Calls == Len(appended["receipts"]) + Len(appended["errors"])
             + faults["receipts"] + faults["errors"]

Faults == faults["receipts"] + faults["errors"]

CanLog(o) == Calls < MaxCalls /\ (o.fault => Faults < MaxFaults)

logReceipt(r, o) ==
    /\ CanLog(o)
    /\ op' = "logReceipt"
    /\ LogLine("receipts", receiptsFile, r, o)
    /\ UNCHANGED <<writerVars, recVars>>

logError(r, o) ==
    /\ CanLog(o)
    /\ op' = "logError"
    /\ LogLine("errors", errorsFile, r, o)
    /\ UNCHANGED <<writerVars, recVars>>

\* The result of a read: [] when the file is absent, [] and one diagnostic
\* when readFileSync throws, else the parsed lines.
ReadResult(path, readFault, lines) ==
    IF ~present[path] THEN [ret |-> <<>>, diag |-> <<>>, threw |-> FALSE]
    ELSE IF readFault
    THEN [ret |-> <<>>, diag |-> << <<"Failed to read">> >>, threw |-> FALSE]
    ELSE ParseLines(lines)

\* What readReceipts / readErrors return on the file at path.
ReadAll(path, readFault) ==
    ReadResult(path, readFault, NonEmptyLines(file[path]))

\* What getRecentReceipts(n) returns: lines.slice(-n), then parsed.
ReadRecent(n, readFault) ==
    ReadResult(receiptsFile, readFault, Slice(NonEmptyLines(file[receiptsFile]), -n))

Return(res, fault) ==
    /\ ret' = res.ret
    /\ diag' = res.diag
    /\ threw' = res.threw
    /\ ioFault' = fault
    /\ UNCHANGED <<file, present, appended, faults, writerVars, recVars>>

readReceipts(readFault) ==
    /\ op' = "readReceipts"
    /\ count' = 0
    /\ Return(ReadAll(receiptsFile, readFault), present[receiptsFile] /\ readFault)

getRecentReceipts(n, readFault) ==
    /\ op' = "getRecentReceipts"
    /\ count' = n
    /\ Return(ReadRecent(n, readFault), present[receiptsFile] /\ readFault)

readErrors(readFault) ==
    /\ op' = "readErrors"
    /\ count' = 0
    /\ Return(ReadAll(errorsFile, readFault), present[errorsFile] /\ readFault)

----------------------------------------------------------------------------
(* The store, one process, on a fresh storage directory *)

NoWriters ==
    /\ pending = [w \in Writers |-> <<>>]
    /\ job = [w \in Writers |-> receiptsFile]
    /\ whole = [ch \in Channels |-> <<>>]
    /\ aligned = [ch \in Channels |-> <<>>]

NoRecommendations ==
    /\ specs = [cpuCount |-> 1, cpuSpeed |-> 0, totalMemoryGB |-> 0,
                currentWorkerThreads |-> 0, currentBatchSize |-> 0]
    /\ recommendations = <<>>

NoCall ==
    /\ op = "new"
    /\ count = 0
    /\ ret = <<>>
    /\ diag = <<>>
    /\ threw = FALSE
    /\ ioFault = FALSE

Init ==
    /\ file = [f \in Files |-> <<>>]
    /\ present = [f \in Files |-> FALSE]
    /\ appended = [ch \in Channels |-> <<>>]
    /\ faults = [ch \in Channels |-> 0]
    /\ NoCall
    /\ NoWriters
    /\ NoRecommendations

Next ==
    \/ \E r \in Records : \E o \in Outcomes(LineOf(r)) : logReceipt(r, o)
    \/ \E r \in Records : \E o \in Outcomes(LineOf(r)) : logError(r, o)
    \/ \E f \in BOOLEAN : readReceipts(f)
    \/ \E n \in 0..MaxCount : \E f \in BOOLEAN : getRecentReceipts(n, f)
    \/ \E f \in BOOLEAN : readErrors(f)

Spec == Init /\ [][Next]_vars

----------------------------------------------------------------------------
(* The store on files found on disk: lines of any kind, each ended by '\n' *)

\* Lines a file may hold: a record, a torn record, white space only, the
\* literal null, and the empty line.
DiskLines == { <<"{", "a", "}">>, <<"{", "a">>, <<" ">>,
               <<"n", "u", "l", "l">>, <<>> }

RECURSIVE Join(_)
Join(ls) == IF ls = <<>> THEN <<>> ELSE Head(ls) \o <<LF>> \o Join(Tail(ls))

DiskFiles == { Join(ls) : ls \in UNION { [1..n -> DiskLines] : n \in 0..MaxLines } }

InitDisk ==
    /\ present \in [Files -> BOOLEAN]
    /\ file \in [Files -> DiskFiles]
    /\ \A f \in Files : ~present[f] => file[f] = <<>>
    /\ appended = [ch \in Channels |-> <<>>]
    /\ faults = [ch \in Channels |-> 0]
    /\ NoCall
    /\ NoWriters
    /\ NoRecommendations

NextDisk ==
    \/ \E f \in BOOLEAN : readReceipts(f)
    \/ \E n \in 0..MaxCount : \E f \in BOOLEAN : getRecentReceipts(n, f)
    \/ \E f \in BOOLEAN : readErrors(f)

SpecDisk == InitDisk /\ [][NextDisk]_vars

----------------------------------------------------------------------------
(* Two processes appending to the same files, a line going out in one or   *)
(* more write calls, the other process's bytes possibly in between         *)

\* The file both processes append to, and what they log.
SharedChannels == {"receipts"}
WriterRecords == { <<"a">> }

AtLineBoundary(content) == content = <<>> \/ content[Len(content)] = LF

Begun == Len(appended["receipts"]) + Len(appended["errors"])

\* Writer w calls logReceipt / logError (ch) with r; the first k bytes of the
\* line reach the file now, the rest stays pending.
beginAppend(w, ch, r, k) ==
    LET line == LineOf(r)
        path == PathOf(ch)
        entire == (k = Len(line))
    IN  /\ pending[w] = <<>>
        /\ Begun < MaxWrites
        /\ k \in 1..Len(line)
        /\ file' = [file EXCEPT ![path] = @ \o SubSeq(line, 1, k)]
        /\ present' = [present EXCEPT ![path] = TRUE]
        /\ pending' = [pending EXCEPT ![w] = SubSeq(line, k + 1, Len(line))]
        /\ job' = [job EXCEPT ![w] = path]
        /\ appended' = [appended EXCEPT ![ch] = Append(@, r)]
        /\ whole' = [whole EXCEPT ![ch] = IF entire THEN Append(@, r) ELSE @]
        /\ aligned' = [aligned EXCEPT ![ch] =
                          IF entire /\ AtLineBoundary(file[path])
                          THEN Append(@, r) ELSE @]
        /\ op' = IF ch = "receipts" THEN "logReceipt" ELSE "logError"
        /\ count' = 0 /\ ret' = <<>> /\ diag' = <<>>
        /\ threw' = FALSE /\ ioFault' = FALSE
        /\ UNCHANGED <<faults, recVars>>

\* The next k pending bytes of writer w reach the file.
continueAppend(w, k) ==
    /\ pending[w] # <<>>
    /\ k \in 1..Len(pending[w])
    /\ file' = [file EXCEPT ![job[w]] = @ \o SubSeq(pending[w], 1, k)]
    /\ pending' = [pending EXCEPT ![w] = SubSeq(@, k + 1, Len(@))]
    /\ op' = "write"
    /\ count' = 0 /\ ret' = <<>> /\ diag' = <<>>
    /\ threw' = FALSE /\ ioFault' = FALSE
    /\ UNCHANGED <<present, appended, faults, job, whole, aligned, recVars>>

InitWriters == Init

NextWriters ==
    \/ \E w \in Writers, ch \in SharedChannels, r \in WriterRecords :
           \E k \in 1..Len(LineOf(r)) : beginAppend(w, ch, r, k)
    \/ \E w \in Writers : \E k \in 1..Len(pending[w]) : continueAppend(w, k)
    \/ \E f \in BOOLEAN : readReceipts(f)
    \/ \E n \in 0..MaxCount : \E f \in BOOLEAN : getRecentReceipts(n, f)
    \/ \E f \in BOOLEAN : readErrors(f)

SpecWriters == InitWriters /\ [][NextWriters]_vars

----------------------------------------------------------------------------
(* calculateRecommendations *)

ABSOLUTE_MAX_WORKERS == 20

\* Math.floor(cpuCount * p / 100) for the factors 0.85, 0.8, 0.75, 0.7, 0.67,
\* 0.65 and 0.5; the double product has the same floor for every cpuCount
\* up to 64.
FloorPct(cpuCount, p) == (cpuCount * p) \div 100

maxWorkers(cpuCount) ==
    IF cpuCount >= 24 THEN Min(ABSOLUTE_MAX_WORKERS, FloorPct(cpuCount, 85))
    ELSE IF cpuCount >= 16 THEN Min(ABSOLUTE_MAX_WORKERS, FloorPct(cpuCount, 80))
    ELSE IF cpuCount >= 8 THEN FloorPct(cpuCount, 75)
    ELSE Max(4, cpuCount - 1)

\* optimalWorkers after "optimalWorkers = Math.min(optimalWorkers, maxWorkers)".
optimalWorkers(cpuCount) ==
    LET first == IF cpuCount >= 24 THEN FloorPct(cpuCount, 67)
                 ELSE IF cpuCount >= 16 THEN FloorPct(cpuCount, 70)
                 ELSE IF cpuCount >= 8 THEN FloorPct(cpuCount, 65)
                 ELSE IF cpuCount >= 4 THEN Max(2, cpuCount - 2)
                 ELSE Max(1, FloorPct(cpuCount, 50))
    IN  Min(first, maxWorkers(cpuCount))

conservativeWorkers(cpuCount) == Max(2, FloorPct(cpuCount, 50))

finalConservativeWorkers(cpuCount) ==
    Min(conservativeWorkers(cpuCount), optimalWorkers(cpuCount))

\* optimalBatchSize, maxBatchSize, conservativeBatchSize
batchSize(sp) ==
    IF sp.cpuCount >= 12 /\ sp.cpuSpeed >= 2500 /\ sp.totalMemoryGB >= 16
    THEN [optimal |-> 400, max |-> 600, conservative |-> 300]
    ELSE IF sp.cpuCount >= 8 /\ sp.cpuSpeed >= 2000 /\ sp.totalMemoryGB >= 8
    THEN [optimal |-> 350, max |-> 500, conservative |-> 250]
    ELSE IF sp.cpuCount >= 4 /\ sp.totalMemoryGB >= 4
    THEN [optimal |-> 250, max |-> 350, conservative |-> 150]
    ELSE [optimal |-> 150, max |-> 250, conservative |-> 100]

systemTier(sp) ==
    IF sp.cpuCount >= 12 /\ sp.totalMemoryGB >= 16 THEN "high-end"
    ELSE IF sp.cpuCount >= 8 /\ sp.totalMemoryGB >= 8 THEN "mid-range"
    ELSE IF sp.cpuCount >= 4 /\ sp.totalMemoryGB >= 4 THEN "entry-level"
    ELSE "low-end"

generateWarnings(sp, optimal) ==
    (IF sp.totalMemoryGB < 4 THEN <<"Low memory">> ELSE <<>>)
    \o (IF sp.cpuCount < 4 THEN <<"Limited CPU cores">> ELSE <<>>)
    \o (IF sp.cpuSpeed < 2000 THEN <<"Low CPU clock speed">> ELSE <<>>)
    \o (IF sp.totalMemoryGB >= 32 /\ sp.cpuCount >= 16
        THEN <<"High-performance system">> ELSE <<>>)
    \o (IF optimal > 12 THEN <<"System has many cores">> ELSE <<>>)

\* The object calculateRecommendations returns; percent is the
\* Math.round((optimalWorkers / cpuCount) * 100) of the explanation.
Recommend(sp) ==
    [systemTier |-> systemTier(sp),
     workerThreads |->
         [current |-> sp.currentWorkerThreads,
          optimal |-> optimalWorkers(sp.cpuCount),
          conservative |-> finalConservativeWorkers(sp.cpuCount),
          max |-> maxWorkers(sp.cpuCount),
          percent |-> (200 * optimalWorkers(sp.cpuCount) + sp.cpuCount)
                          \div (2 * sp.cpuCount)],
     batchSize |->
         [current |-> sp.currentBatchSize,
          optimal |-> batchSize(sp).optimal,
          conservative |-> batchSize(sp).conservative,
          max |-> batchSize(sp).max],
     warnings |-> generateWarnings(sp, optimalWorkers(sp.cpuCount))]

calculateRecommendations ==
    /\ op = "new"
    /\ op' = "calculateRecommendations"
    /\ recommendations' = Recommend(specs)
    /\ UNCHANGED <<file, present, appended, faults, count, ret, diag, threw,
                   ioFault, writerVars, specs>>

\* The hosts: 1..MaxCpu cores, three clock speeds (MHz), five memory sizes (GB).
InitRec ==
    /\ specs \in [cpuCount : 1..MaxCpu,
                  cpuSpeed : {1500, 2000, 2500},
                  totalMemoryGB : {2, 4, 8, 16, 32},
                  currentWorkerThreads : {11},
                  currentBatchSize : {300}]
    /\ recommendations = <<>>
    /\ file = [f \in Files |-> <<>>]
    /\ present = [f \in Files |-> FALSE]
    /\ appended = [ch \in Channels |-> <<>>]
    /\ faults = [ch \in Channels |-> 0]
    /\ NoCall
    /\ NoWriters

NextRec == calculateRecommendations

SpecRec == InitRec /\ [][NextRec]_vars

----------------------------------------------------------------------------
(* Properties of the store *)

ReadOps == {"readReceipts", "getRecentReceipts", "readErrors"}
LogOps == {"logReceipt", "logError"}
ReadAllOp(ch) == IF ch = "receipts" THEN "readReceipts" ELSE "readErrors"

\* The last m elements of s.
LastN(s, m) == SubSeq(s, Len(s) - m + 1, Len(s))

\* C1: on a channel whose file was absent at first and that has seen only
\* successful appends (n >= 0 of them), a readReceipts / readErrors that hits
\* no read fault returns exactly the appended records in append order, emits
\* no diagnostic and raises nothing; with n = 0 that is the empty sequence.
C1_ReadAllReturnsAppended ==
    \A ch \in Channels :
        (op = ReadAllOp(ch) /\ ~ioFault /\ faults[ch] = 0)
            => (ret = appended[ch] /\ diag = <<>> /\ ~threw)

C1_Witness ==
    /\ op = "readReceipts" /\ ~ioFault /\ faults["receipts"] = 0
    /\ Len(appended["receipts"]) = MaxCalls
    /\ appended["receipts"][1] = <<BS, LF>>
    /\ appended["receipts"][2] = <<"a">>
    /\ ret = appended["receipts"]

\* C2: getRecentReceipts(0) returns the empty sequence whatever the file holds.
C2_RecentZeroIsEmpty ==
    (op = "getRecentReceipts" /\ count = 0) => ret = <<>>

\* C4: with n records successfully appended to the receipts channel and no
\* faulting append, getRecentReceipts(k) for k >= 1 returns the last
\* min(k, n) appended records in append order, all n of them when k > n,
\* and raises nothing.
C4_RecentReturnsTail ==
    (op = "getRecentReceipts" /\ count >= 1 /\ ~ioFault /\ faults["receipts"] = 0)
        => /\ ret = LastN(appended["receipts"],
                          Min(count, Len(appended["receipts"])))
           /\ ~threw

C4_Witness ==
    /\ op = "getRecentReceipts" /\ ~ioFault /\ faults["receipts"] = 0
    /\ count = 2
    /\ appended["receipts"] = << <<"a">>, <<BS, LF>>, <<"a">> >>
    /\ ret = << <<BS, LF>>, <<"a">> >>

\* C7: a log call that hits a write fault returns normally after one
\* diagnostic, and a later read of the channel (itself not faulting) returns
\* exactly the records of the calls that did not fault, in append order.
C7_FaultLosesOneRecord ==
    /\ (op \in LogOps /\ ioFault) => (~threw /\ Len(diag) = 1)
    /\ \A ch \in Channels :
           (op = ReadAllOp(ch) /\ ~ioFault) => ret = appended[ch]

\* C8: every step leaves each file's content a prefix of its new content,
\* never makes a present file absent, and a read operation changes neither
\* the files nor which of them exist.
IsPrefix(s, t) == Len(s) <= Len(t) /\ SubSeq(t, 1, Len(s)) = s

C8_Step ==
    /\ \A f \in Files :
           /\ IsPrefix(file[f], file'[f])
           /\ present[f] => present'[f]
    /\ op' \in ReadOps => (file' = file /\ present' = present)

C8_AppendOnly == [][C8_Step]_vars

C8_Witness ==
    /\ op = "readErrors"
    /\ ~present[errorsFile]
    /\ faults["receipts"] = 1
    /\ Len(appended["receipts"]) = 2
    /\ Len(file[receiptsFile]) > Len(LineOf(<<"a">>)) + Len(LineOf(<<BS, LF>>))

\* C9: a logReceipt step leaves the errors file (its content and its
\* existence, hence every read of it) unchanged, a logError step leaves the
\* receipts file unchanged, and whatever happened on the other channel a
\* read returns exactly the records logged on its own channel (when no call
\* on that channel faulted).
C9_Step ==
    /\ op' = "logReceipt" =>
           /\ file'[errorsFile] = file[errorsFile]
           /\ present'[errorsFile] = present[errorsFile]
    /\ op' = "logError" =>
           /\ file'[receiptsFile] = file[receiptsFile]
           /\ present'[receiptsFile] = present[receiptsFile]
    /\ \A ch \in Channels :
           (op' = ReadAllOp(ch) /\ ~ioFault' /\ faults'[ch] = 0)
               => ret' = appended'[ch]

C9_NoCrossContamination == [][C9_Step]_vars

C9_Witness ==
    /\ op = "readReceipts" /\ ~ioFault
    /\ appended["receipts"] = << <<"a">>, <<BS, LF>> >>
    /\ faults["errors"] = 1
    /\ file[errorsFile] # <<>>
    /\ ret = appended["receipts"]

----------------------------------------------------------------------------
(* Properties of the readers on files found on disk *)

\* The lines of a file in which every line is ended by '\n'.
TerminatedLines(content) ==
    IF content = <<>> THEN <<>>
    ELSE SubSeq(Split(content), 1, Len(Split(content)) - 1)

\* A line is valid when it parses to a record, blank when it is empty or
\* white space only, and corrupt otherwise.
ValidLine(l) == JsonParse(l).kind = "object"
BlankLine(l) == \A i \in 1..Len(l) : l[i] \in WhiteSpace
CorruptLine(l) == ~BlankLine(l) /\ ~ValidLine(l)

\* The records of the valid lines among ls, in order.
ValidRecords(ls) ==
    LET v == SelectSeq(ls, ValidLine)
    IN  [i \in 1..Len(v) |-> JsonParse(v[i]).val]

\* C3: on any receipts file, getRecentReceipts(count) with count >= 1 returns
\* the last min(count, v) elements of what readReceipts returns on that file,
\* v being the number of records readReceipts returns.
C3_RecentIsTailOfValid ==
    (op = "getRecentReceipts" /\ count >= 1 /\ ~ioFault)
        => LET all == ReadAll(receiptsFile, FALSE).ret
           IN  ret = LastN(all, Min(count, Len(all)))

\* C6: on any file of '\n'-ended lines, readReceipts / readErrors raise
\* nothing, return exactly the records of the valid lines in file order and
\* emit one diagnostic per corrupt line (diagnostics about blank lines are
\* not counted).
C6_SkipsCorruptLines ==
    \A ch \in Channels :
        (op = ReadAllOp(ch) /\ ~ioFault /\ present[PathOf(ch)])
            => LET ls == TerminatedLines(file[PathOf(ch)])
               IN  /\ ~threw
                   /\ ret = ValidRecords(ls)
                   /\ Len(SelectSeq(diag, CorruptLine))
                          = Cardinality({i \in 1..Len(ls) : CorruptLine(ls[i])})

----------------------------------------------------------------------------
(* Properties of the readers under concurrent writers *)

RECURSIVE IsSubseq(_, _)
IsSubseq(a, b) ==
    IF a = <<>> THEN TRUE
    ELSE IF b = <<>> THEN FALSE
    ELSE IF Head(a) = Head(b) THEN IsSubseq(Tail(a), Tail(b))
    ELSE IsSubseq(a, Tail(b))

\* C5: with two processes appending and lines reaching the file in pieces,
\* no read raises a fault and every record whose whole line went out in one
\* write call is returned by readReceipts / readErrors.
C5_WholeLinesSurvive ==
    /\ op \in ReadOps => ~threw
    /\ \A ch \in Channels :
           (op = ReadAllOp(ch) /\ ~ioFault)
               => \A i \in 1..Len(whole[ch]) :
                      \E j \in 1..Len(ret) : ret[j] = whole[ch][i]

\* C5 as amended: no read raises a fault, and the records whose whole line
\* went out in one write call that began at a line boundary (the file empty
\* or ending in '\n' at that moment) are all returned, in write order.
C5_AlignedLinesSurvive ==
    /\ op \in ReadOps => ~threw
    /\ \A ch \in Channels :
           (op = ReadAllOp(ch) /\ ~ioFault) => IsSubseq(aligned[ch], ret)

C5_Witness ==
    /\ op = "readReceipts" /\ ~ioFault
    /\ aligned["receipts"] = << <<"a">> >>
    /\ whole["receipts"] = << <<"a">>, <<"a">> >>
    /\ Len(diag) = 1
    /\ ret = << <<"a">> >>

----------------------------------------------------------------------------
(* Properties of calculateRecommendations *)

\* C10: for every cpuCount >= 1 the worker-thread values returned are ordered
\* conservative <= optimal <= max and none of them exceeds cpuCount.
C10_WorkersWithinCores ==
    op = "calculateRecommendations"
        => LET w == recommendations.workerThreads
           IN  /\ w.conservative <= w.optimal
               /\ w.optimal <= w.max
               /\ w.max <= specs.cpuCount

====
